---- MODULE Spec2Model ----
(***************************************************************************)
(* Model of the Scopus harvester (src/Scopus/0_compsci.py).                *)
(*                                                                         *)
(* The harvester is one sequential process.  It walks a list of monthly    *)
(* buckets; for each bucket it either skips (final file exists) or resumes *)
(* from the highest-numbered checkpoint, pages through the search          *)
(* endpoint, enriches every entry, writes a checkpoint every               *)
(* BACKUP_INTERVAL records and finally writes the bucket's output file.    *)
(* The files outlive the process: the process may be killed at any point   *)
(* and invoked again.                                                      *)
(*                                                                         *)
(* The page size, the checkpoint interval and the offset limit are scaled  *)
(* down (200 / 500 / 5000 in the source) so that the record list can be    *)
(* explored entry by entry; the checkpoint interval stays a non-multiple   *)
(* of the page size and the limit stays a multiple of both, as in the      *)
(* source.                                                                 *)
(*                                                                         *)
(* SpecPause is one run of the harvester with the operator's pause signal  *)
(* and the reload of the credential pool (check_for_pause,                 *)
(* pause_and_reload).                                                      *)
(*                                                                         *)
(* SpecAnnot is one call of process_file_streaming of the annotator        *)
(* (src/Binoculars/binoculars_analysis.py and its patch script): the       *)
(* streaming read with the skip rule and the scorer, the merge by          *)
(* identifier and the write.  SpecThreshold is the derivation of the two   *)
(* predictions from a score, for scores around the thresholds.             *)
(* SpecAnalyze is the loop of analyze_abstracts over its target files,     *)
(* with a write that raises or is interrupted; SpecRerun is a second call  *)
(* of process_file_streaming on the file the first call wrote.             *)
(*                                                                         *)
(* SpecPatch is the harvester's patch script                               *)
(* (src/Scopus/0_compsci_patch.py): the same walk without final files,     *)
(* without offset limit and with backups named by the number of records.   *)
(***************************************************************************)
EXTENDS Integers, Sequences, FiniteSets, TLC

\* ---------------------------------------------------------------- bounds
COUNT == 2              \* page size (200 in the source), scaled
BACKUP_INTERVAL == 3    \* checkpoint interval (500 in the source), scaled
OFFSET_LIMIT == 6       \* per-bucket offset limit (5000 in the source), scaled
MaxServed == 7          \* most entries the upstream serves for one bucket
MaxKeys == 2            \* size of the credential pool
MaxRuns == 2            \* invocations of the script (first run + re-runs)
MaxFailedAttempts == 4  \* failed enrichment attempts over all runs
MaxPauses == 1          \* operator pauses in one run
MaxRecords == 2         \* records of an annotator input document

\* ------------------------------------------------------ program constants
RETRIES == 3            \* retries=3 of fetch_metadata/abstract/citations
\* Scores are counted in units of 1e-4.  The thresholds of
\* binoculars_analysis.py lines 24-25 are 0.9015310749276843 and
\* 0.8536432310785527: a score on the grid is >= the threshold exactly when
\* it is >= the first grid point above it.
BINOCULARS_ACCURACY_THRESHOLD == 9016
BINOCULARS_FPR_THRESHOLD == 8537

\* month_list, cut to its first two months
month_list == <<"JANUARY", "FEBRUARY">>
Buckets == 1..Len(month_list)

VARIABLES
  \* --- the file system (survives the process)
  final,                  \* bucket -> final output file, for the files that exist
  ckpt,                   \* bucket -> (count -> checkpoint file), for those that exist
  \* --- the upstream service
  served,                 \* bucket -> number of entries the search serves
  \* --- the process
  pc,                     \* position of the script
  cur,                    \* current_date, as an index into month_list
  API_KEYS,               \* the credential pool, as its length
  current_api_key_index,
  start_offset,
  current_offset,
  total_processed,
  monthly_articles,
  entries,                \* entries of the page being processed (Scopus ids)
  ei,                     \* position of the for loop in entries
  \* --- observation of the last step and of the history
  runs,                   \* invocations so far
  failedAttempts,         \* failed enrichment attempts so far
  metaFailed,             \* bucket -> ids for which fetch_metadata returned None
  pageLog,                \* the page requests of this bucket run: start offset, status, entries
  lastResp,               \* status of the page response of the last step; after a
                          \* reload, whether the pool has another size
  nreq,                   \* HTTP requests issued by the last step
  ckptRead,               \* the last step read a checkpoint file
  lastMeta,               \* outcome of fetch_metadata in the last step
  lastCited,              \* the last step called fetch_citations
  step,                   \* the operation the last step performed
  fetchLog,               \* the last call of a fetch function, with its requests
  \* --- the credential source
  dotenvKeys,             \* keys listed under SCOPUS_API_KEYS in the .env file (0: none)
  environKeys,            \* keys listed under SCOPUS_API_KEYS in os.environ (0: unset)
  pauses,                 \* operator pauses so far
  \* --- the annotator (src/Binoculars)
  variant,                \* "main": binoculars_analysis.py, "patch": ..._patch.py
  input_file,             \* argument of process_file_streaming
  output_file,            \* argument of process_file_streaming
  disk,                   \* the annotator's file system: path -> document
  dirs,                   \* the directories that exist
  apc,                    \* position in process_file_streaming
  ri,                     \* records the streaming parser has yielded
  processed_items,        \* the list of lines 36, 66
  document,               \* data of line 101, merged in place
  ret,                    \* the return value: "None" while running
  calls,                  \* every compute_score call made, in order
  written,                \* the paths opened for writing
  ti,                     \* targets of analyze_abstracts taken so far
  success_count,          \* line 159
  attempts                \* the targets taken so far, each with its outcome

fsVars == <<final, ckpt>>
procVars == <<pc, cur, API_KEYS, current_api_key_index, start_offset,
              current_offset, total_processed, monthly_articles, entries, ei>>
obsVars == <<runs, failedAttempts, metaFailed, pageLog, lastResp, nreq,
             ckptRead, lastMeta, lastCited, step>>
envVars == <<dotenvKeys, environKeys, pauses>>
harvVars == <<fsVars, served, procVars, obsVars, fetchLog, envVars>>
loopVars == <<ti, success_count, attempts>>
annVars == <<variant, input_file, output_file, disk, dirs, apc, ri,
             processed_items, document, ret, calls, written, loopVars>>
vars == <<final, ckpt, served, pc, cur, API_KEYS, current_api_key_index,
          start_offset, current_offset, total_processed, monthly_articles,
          entries, ei, runs, failedAttempts, metaFailed, pageLog, lastResp,
          nreq, ckptRead, lastMeta, lastCited, step, fetchLog, dotenvKeys,
          environKeys,
          pauses, variant, input_file, output_file, disk, dirs, apc, ri,
          processed_items, document, ret, calls, written, ti, success_count,
          attempts>>

\* ------------------------------------------------------------- utilities
Max(S) == CHOOSE x \in S : \A y \in S : y <= x
Min2(a, b) == IF a <= b THEN a ELSE b
Ids(list) == [k \in 1..Len(list) |-> list[k].Scopus_ID]
IdSet(list) == {list[k].Scopus_ID : k \in 1..Len(list)}
NoDuplicates(s) == \A i, j \in 1..Len(s) : s[i] = s[j] => i = j
IsPrefix(s, t) == Len(s) <= Len(t) /\ \A k \in 1..Len(s) : s[k] = t[k]

\* A file written to completion, and a file left behind by an interrupted
\* open(..., "w") + json.dump: it exists, but json.load raises on it.
WholeFile(data) == [ok |-> TRUE, data |-> data]
PartialFile == [ok |-> FALSE, data |-> <<>>]
NoFiles == [b \in {} |-> PartialFile]

\* ------------------------------------------------------------ credentials
\* (mutant) the pointer is not moved
cycle_api_key_stuck(idx, n) == idx

cycle_api_key(idx, n) == (idx + 1) % n

\* ------------------------------------------------------- upstream content
\* What the retrieval endpoint holds for an entry; fixed per id.
UpstreamDescription(id) == IF id % 3 = 2 THEN "N/A" ELSE "text"
UpstreamCitedBy(id) == id % 2
UpstreamCiting(id) == <<[Citing_Article_Scopus_ID |-> id + 100]>>

\* Outcome of one HTTP attempt of a fetch function.
Outcomes == {"ok", "429", "badjson", "nokey"}
AttemptSeqs == [1..RETRIES -> Outcomes]
\* k failed attempts, then successes
FailThenOk(k) == [a \in 1..RETRIES |-> IF a <= k THEN "429" ELSE "ok"]
HarvestAttempts == {FailThenOk(k) : k \in 0..RETRIES}
\* attempts a call makes under the outcome sequence, and how many of them fail
RECURSIVE FailedBefore(_, _)
FailedBefore(outs, a) ==
  IF a > RETRIES \/ outs[a] = "ok" THEN 0 ELSE 1 + FailedBefore(outs, a + 1)
Fails(outs) == FailedBefore(outs, 1)

\* The retry loop the three fetch functions share: `for attempt in
\* range(retries)`, every failure branch cycles the key and continues.
\* keys is the credential index each request was sent with.
RECURSIVE RetryLoop(_, _, _, _, _)
RetryLoop(outs, attempt, idx, n, keys) ==
  IF attempt > RETRIES
    THEN [ok |-> FALSE, idx |-> idx, keys |-> keys]
  ELSE IF outs[attempt] = "429"
    THEN RetryLoop(outs, attempt + 1, cycle_api_key(idx, n), n, Append(keys, idx))
  ELSE IF outs[attempt] = "badjson"
    THEN RetryLoop(outs, attempt + 1, cycle_api_key(idx, n), n, Append(keys, idx))
  ELSE IF outs[attempt] = "nokey"
    THEN RetryLoop(outs, attempt + 1, cycle_api_key(idx, n), n, Append(keys, idx))
  ELSE [ok |-> TRUE, idx |-> idx, keys |-> Append(keys, idx)]

NoMetadata == [Scopus_ID |-> -1, Abstract |-> "N/A", Cited_By_Count |-> 0]
NoRecord == [Scopus_ID |-> -1, Abstract |-> "N/A", Cited_By_Count |-> 0,
             Citations |-> <<>>]

fetch_metadata(id, idx, n, outs) ==
  LET r == RetryLoop(outs, 1, idx, n, <<>>) IN
  [isNone |-> ~r.ok,
   value |-> IF r.ok
               THEN [Scopus_ID |-> id,
                     Abstract |-> UpstreamDescription(id),
                     Cited_By_Count |-> UpstreamCitedBy(id)]
               ELSE NoMetadata,
   idx |-> r.idx, keys |-> r.keys]

fetch_abstract(id, idx, n, outs) ==
  LET r == RetryLoop(outs, 1, idx, n, <<>>) IN
  [value |-> IF r.ok THEN UpstreamDescription(id) ELSE "N/A",
   idx |-> r.idx, keys |-> r.keys]

fetch_citations(id, idx, n, outs) ==
  LET r == RetryLoop(outs, 1, idx, n, <<>>) IN
  [value |-> IF r.ok THEN UpstreamCiting(id) ELSE <<>>,
   idx |-> r.idx, keys |-> r.keys]

\* ------------------------------------------------------------ the process
\* resume_backup: the highest-numbered checkpoint of the bucket, loaded.
\* json.load raises on a file that is not a whole JSON document.
resume_backup(cks) ==
  IF DOMAIN cks = {}
    THEN [raised |-> FALSE, start_offset |-> 0, articles |-> <<>>]
  ELSE LET latest == Max(DOMAIN cks) IN
    IF cks[latest].ok
      THEN [raised |-> FALSE, start_offset |-> latest, articles |-> cks[latest].data]
      ELSE [raised |-> TRUE, start_offset |-> latest, articles |-> <<>>]

\* The entries the search endpoint returns for a page of bucket b.
SearchPage(b, offset) ==
  [k \in 1..(Min2(offset + COUNT, served[b]) - Min2(offset, served[b])) |-> offset + k - 1]

\* What the page loop does with a response: status and kind of body.
\*   "raise"   response.json() raises (lines 279 and 281)
\*   "break"   status other than 200, or no entries
\*   "entries" the for loop runs over the page
PageStatuses == {"200", "429", "500"}
PageBodies == {"results", "nokey", "unparsable"}
PageControl(status, body, page) ==
  IF body = "unparsable" THEN "raise"
  ELSE IF status # "200" THEN "break"
  ELSE IF body = "nokey" \/ page = <<>> THEN "break"
  ELSE "entries"

\* (mutant) only a whole file counts as collected
OutputExistsWhole(files, b) == b \in DOMAIN files /\ files[b].ok

\* os.path.exists(output_file): the file is there, whole or not.
OutputExists(files, b) == b \in DOMAIN files

\* (mutant) the limit itself is still requested
PageLoopRunsInclusive(offset) == offset <= OFFSET_LIMIT

\* Whether the page loop runs another iteration.
PageLoopRuns(offset) == offset < OFFSET_LIMIT

\* (mutant) the test is made on the count before the increment
BackupDueBeforeIncrement(tp) == (tp - 1) % BACKUP_INTERVAL = 0

\* Whether the record just appended triggers a checkpoint.
BackupDue(tp) == tp % BACKUP_INTERVAL = 0

\* (mutant) the `if metadata:` test is missing: a failed entry is appended
EnrichWithoutTest(id, idx, n, mo, ao, co) ==
  LET m == fetch_metadata(id, idx, n, mo) IN
  [metaNone |-> m.isNone, appended |-> TRUE,
   record |-> [Scopus_ID |-> id, Abstract |-> "N/A", Cited_By_Count |-> 0,
               Citations |-> <<>>],
   idx |-> m.idx, nreq |-> Len(m.keys), fails |-> Fails(mo), cited |-> FALSE]

\* Lines 287-297: enrichment of one entry.  mo, ao, co are the outcomes of
\* the HTTP attempts of the three fetch calls.
Enrich(id, idx, n, mo, ao, co) ==
  LET m == fetch_metadata(id, idx, n, mo) IN
  IF m.isNone
    THEN [metaNone |-> TRUE, appended |-> FALSE, record |-> NoRecord,
          idx |-> m.idx, nreq |-> Len(m.keys), fails |-> Fails(mo),
          cited |-> FALSE]
  ELSE
    LET a == fetch_abstract(id, m.idx, n, ao)
        cited == m.value.Cited_By_Count > 0
        c == IF cited THEN fetch_citations(id, a.idx, n, co)
                      ELSE [value |-> <<>>, idx |-> a.idx, keys |-> <<>>]
    IN [metaNone |-> FALSE,
        appended |-> TRUE,
        record |-> [Scopus_ID |-> m.value.Scopus_ID,
                    Abstract |-> a.value,
                    Cited_By_Count |-> m.value.Cited_By_Count,
                    Citations |-> c.value],
        idx |-> c.idx,
        nreq |-> Len(m.keys) + Len(a.keys) + Len(c.keys),
        fails |-> Fails(mo) + Fails(ao) + (IF cited THEN Fails(co) ELSE 0),
        cited |-> cited]

ObsCited(op, resp, n, rd, meta, cited) ==
  /\ step' = op
  /\ lastResp' = resp
  /\ nreq' = n
  /\ ckptRead' = rd
  /\ lastMeta' = meta
  /\ lastCited' = cited

Obs(op, resp, n, rd, meta) == ObsCited(op, resp, n, rd, meta, FALSE)

\* The process's memory is gone once it has stopped.
Stopped(how) ==
  /\ pc' = how
  /\ cur' = 1
  /\ current_api_key_index' = 0
  /\ start_offset' = 0
  /\ current_offset' = 0
  /\ total_processed' = 0
  /\ monthly_articles' = <<>>
  /\ entries' = <<>>
  /\ ei' = 0
  /\ pageLog' = <<>>
  /\ UNCHANGED API_KEYS

\* End of the body of the for loop: next entry, or next page.
NextEntry ==
  IF ei < Len(entries)
    THEN /\ pc' = "entry"
         /\ ei' = ei + 1
         /\ UNCHANGED current_offset
    ELSE /\ pc' = "page"
         /\ ei' = 0
         /\ current_offset' = current_offset + COUNT

\* A new invocation of the script.
Start ==
  /\ pc \in {"killed", "raised", "done"}
  /\ runs < MaxRuns
  /\ runs' = runs + 1
  /\ pc' = "bucket"
  /\ Obs("Start", "none", 0, FALSE, "none")
  /\ UNCHANGED <<final, ckpt, served, cur, API_KEYS, current_api_key_index,
                 start_offset, current_offset, total_processed,
                 monthly_articles, entries, ei, failedAttempts, metaFailed,
                 pageLog, fetchLog, envVars, annVars>>

\* Lines 249, 313: the month loop is over.
Finish ==
  /\ pc = "bucket"
  /\ cur > Len(month_list)
  /\ pc' = "done"
  /\ Obs("Finish", "none", 0, FALSE, "none")
  /\ UNCHANGED <<final, ckpt, served, cur, API_KEYS, current_api_key_index,
                 start_offset, current_offset, total_processed,
                 monthly_articles, entries, ei, runs, failedAttempts,
                 metaFailed, pageLog, fetchLog, envVars, annVars>>

\* Lines 257-262: the final output file of the bucket exists.
SkipBucket ==
  /\ pc = "bucket"
  /\ cur \in Buckets
  /\ OutputExists(final, cur)
  /\ cur' = cur + 1
  /\ Obs("SkipBucket", "none", 0, FALSE, "none")
  /\ UNCHANGED <<final, ckpt, served, pc, API_KEYS, current_api_key_index,
                 start_offset, current_offset, total_processed,
                 monthly_articles, entries, ei, runs, failedAttempts,
                 metaFailed, pageLog, fetchLog, envVars, annVars>>

\* Lines 264-271: the bucket is resumed from its latest checkpoint.  at is
\* the position the step is taken from: the top of the month loop with no
\* pause signal waiting, or the return from pause_and_reload.
BeginBucketAt(at) ==
  /\ pc = at
  /\ cur \in Buckets
  /\ ~OutputExists(final, cur)
  /\ LET r == resume_backup(ckpt[cur]) IN
       IF r.raised
         THEN Stopped("raised")
         ELSE /\ pc' = "page"
              /\ start_offset' = r.start_offset
              /\ monthly_articles' = r.articles
              /\ current_offset' = r.start_offset
              /\ total_processed' = r.start_offset
              /\ pageLog' = <<>>
              /\ UNCHANGED <<cur, API_KEYS, current_api_key_index, entries, ei>>
  /\ Obs("BeginBucket", "none", 0, DOMAIN ckpt[cur] # {}, "none")
  /\ UNCHANGED <<final, ckpt, served, runs, failedAttempts, metaFailed, fetchLog, envVars, annVars>>

BeginBucket == BeginBucketAt("bucket")

\* Line 273, condition false: the offset limit is reached.
PageLimit ==
  /\ pc = "page"
  /\ ~PageLoopRuns(current_offset)
  /\ pc' = "final"
  /\ Obs("PageLimit", "none", 0, FALSE, "none")
  /\ UNCHANGED <<final, ckpt, served, cur, API_KEYS, current_api_key_index,
                 start_offset, current_offset, total_processed,
                 monthly_articles, entries, ei, runs, failedAttempts,
                 metaFailed, pageLog, fetchLog, envVars, annVars>>

\* get_headers: API_KEYS[current_api_key_index] raises IndexError when the
\* pointer is outside the pool.
get_headers_raises(idx, n) == idx >= n

\* Lines 273-285: one page request and what follows from its response.  at
\* is the position the step is taken from: the top of the page loop with no
\* pause signal waiting, or the return from pause_and_reload.
PageAt(at) ==
  /\ pc = at
  /\ PageLoopRuns(current_offset)
  /\ \E status \in PageStatuses, body \in PageBodies :
       LET page == IF status = "200" /\ body = "results"
                     THEN SearchPage(cur, current_offset) ELSE <<>>
           ctl == IF get_headers_raises(current_api_key_index, API_KEYS)
                    THEN "raise" ELSE PageControl(status, body, page)
       IN /\ IF ctl = "raise" THEN Stopped("raised")
             ELSE /\ pageLog' = Append(pageLog, [start |-> current_offset,
                                              status |-> status,
                                              n |-> Len(page)])
                  /\ IF ctl = "break"
                       THEN /\ pc' = "final"
                            /\ UNCHANGED <<entries, ei>>
                       ELSE /\ pc' = "entry"
                            /\ entries' = page
                            /\ ei' = 1
                  /\ UNCHANGED <<cur, API_KEYS, current_api_key_index,
                                 start_offset, current_offset, total_processed,
                                 monthly_articles>>
          /\ Obs("Page", status, 1, FALSE, "none")
  /\ UNCHANGED <<final, ckpt, served, runs, failedAttempts, metaFailed, fetchLog, envVars, annVars>>

Page == PageAt("page")

\* Lines 286-298: the body of the for loop for one entry, up to the
\* checkpoint test.
Entry ==
  /\ pc = "entry"
  /\ \E mo \in HarvestAttempts, ao \in HarvestAttempts, co \in HarvestAttempts :
       LET id == entries[ei]
           e == Enrich(id, current_api_key_index, API_KEYS, mo, ao, co)
       IN /\ failedAttempts + e.fails <= MaxFailedAttempts
          \* outcomes of calls that are not made are not inputs
          /\ (~e.appended => ao = FailThenOk(0))
          /\ (~e.cited => co = FailThenOk(0))
          /\ failedAttempts' = failedAttempts + e.fails
          /\ current_api_key_index' = e.idx
          /\ IF e.appended
               THEN /\ monthly_articles' = Append(monthly_articles, e.record)
                    /\ total_processed' = total_processed + 1
                    /\ UNCHANGED metaFailed
                    /\ IF BackupDue(total_processed + 1)
                         THEN /\ pc' = "backup"
                              /\ UNCHANGED <<ei, current_offset>>
                         ELSE NextEntry
               ELSE /\ metaFailed' = [metaFailed EXCEPT ![cur] = @ \cup {id}]
                    /\ UNCHANGED <<monthly_articles, total_processed>>
                    /\ NextEntry
          /\ ObsCited("Entry", "none", e.nreq, FALSE,
                      IF e.metaNone THEN "None" ELSE "ok", e.cited)
  /\ UNCHANGED <<final, ckpt, served, cur, API_KEYS, start_offset, entries,
                 runs, pageLog, fetchLog, envVars, annVars>>

\* Lines 299-302: backup_data writes the checkpoint named by the count.
Backup ==
  /\ pc = "backup"
  /\ ckpt' = [ckpt EXCEPT ![cur] = (total_processed :> WholeFile(monthly_articles)) @@ @]
  /\ NextEntry
  /\ Obs("Backup", "none", 0, FALSE, "none")
  /\ UNCHANGED <<final, served, cur, API_KEYS, current_api_key_index,
                 start_offset, total_processed, monthly_articles, entries,
                 runs, failedAttempts, metaFailed, pageLog, fetchLog, envVars, annVars>>

\* Lines 306-311: the final output file is written, on to the next month.
WriteFinal ==
  /\ pc = "final"
  /\ final' = (cur :> WholeFile(monthly_articles)) @@ final
  /\ pc' = "bucket"
  /\ cur' = cur + 1
  /\ Obs("WriteFinal", "none", 0, FALSE, "none")
  /\ UNCHANGED <<ckpt, served, API_KEYS, current_api_key_index, start_offset,
                 current_offset, total_processed, monthly_articles, entries,
                 ei, runs, failedAttempts, metaFailed, pageLog, fetchLog, envVars, annVars>>

\* The process is terminated from outside.  Its files stay as they are,
\* except the one it is writing: open(..., "w") has truncated it and
\* json.dump has not finished.
Kill ==
  /\ pc \in {"bucket", "page", "entry", "backup", "final"}
  /\ runs < MaxRuns
  /\ Stopped("killed")
  /\ Obs("Kill", "none", 0, FALSE, "none")
  /\ UNCHANGED <<final, ckpt, served, runs, failedAttempts, metaFailed, fetchLog, envVars, annVars>>

KillInBackup ==
  /\ pc = "backup"
  /\ runs < MaxRuns
  /\ ckpt' = [ckpt EXCEPT ![cur] = (total_processed :> PartialFile) @@ @]
  /\ Stopped("killed")
  /\ Obs("KillInBackup", "none", 0, FALSE, "none")
  /\ UNCHANGED <<final, served, runs, failedAttempts, metaFailed, fetchLog, envVars, annVars>>

KillInFinal ==
  /\ pc = "final"
  /\ runs < MaxRuns
  /\ final' = (cur :> PartialFile) @@ final
  /\ Stopped("killed")
  /\ Obs("KillInFinal", "none", 0, FALSE, "none")
  /\ UNCHANGED <<ckpt, served, runs, failedAttempts, metaFailed, fetchLog, envVars, annVars>>

\* The annotator is a separate script: it is not running while the
\* harvester is.
\* analyze_abstracts has taken no target.
LoopAtRest ==
  /\ ti = 0
  /\ success_count = 0
  /\ attempts = <<>>

AnnotatorAtRest ==
  /\ variant = "main"
  /\ input_file = <<>>
  /\ output_file = <<>>
  /\ disk = <<>>
  /\ dirs = {}
  /\ apc = "off"
  /\ ri = 0
  /\ processed_items = <<>>
  /\ document = <<>>
  /\ ret = "None"
  /\ calls = <<>>
  /\ written = {}
  /\ LoopAtRest

\* The upstream serves no entry, one entry or MaxServed entries for a bucket; at most
\* one bucket of a run is a large one.
ServedChoices == {0, 1, MaxServed}
ServedProfiles ==
  {f \in [Buckets -> ServedChoices] : Cardinality({b \in Buckets : f[b] > 1}) <= 1}
NoFetch == [fn |-> "none", id |-> 0, outs |-> FailThenOk(0), idx0 |-> 0,
            pool |-> 1, idx1 |-> 0, keys |-> <<>>, isNone |-> FALSE,
            abstract |-> "N/A", citations |-> <<>>]

Init ==
  /\ final = NoFiles
  /\ ckpt = [b \in Buckets |-> NoFiles]
  /\ served \in ServedProfiles
  /\ pc = "bucket"
  /\ cur = 1
  /\ API_KEYS = MaxKeys
  /\ current_api_key_index = 0
  /\ start_offset = 0
  /\ current_offset = 0
  /\ total_processed = 0
  /\ monthly_articles = <<>>
  /\ entries = <<>>
  /\ ei = 0
  /\ runs = 1
  /\ failedAttempts = 0
  /\ metaFailed = [b \in Buckets |-> {}]
  /\ pageLog = <<>>
  /\ lastResp = "none"
  /\ nreq = 0
  /\ ckptRead = FALSE
  /\ lastMeta = "none"
  /\ lastCited = FALSE
  /\ step = "Init"
  /\ fetchLog = NoFetch
  /\ dotenvKeys = MaxKeys
  /\ environKeys = MaxKeys
  /\ pauses = 0
  /\ AnnotatorAtRest

Next ==
  \/ Start
  \/ Finish
  \/ SkipBucket
  \/ BeginBucket
  \/ PageLimit
  \/ Page
  \/ Entry
  \/ Backup
  \/ WriteFinal
  \/ Kill
  \/ KillInBackup
  \/ KillInFinal

Spec == Init /\ [][Next]_vars

\* ------------------------------------------------ the fetch functions alone
\* Each fetch function called from every pointer position of every pool size,
\* under every sequence of attempt outcomes.
FetchIds == 0..2

FetchCall(fn, id, outs, r, isNone, abstract, citations) ==
  /\ pc = "fetch"
  /\ fetchLog' = [fn |-> fn, id |-> id, outs |-> outs,
                  idx0 |-> current_api_key_index, pool |-> API_KEYS,
                  idx1 |-> r.idx, keys |-> r.keys, isNone |-> isNone,
                  abstract |-> abstract, citations |-> citations]
  /\ current_api_key_index' = r.idx
  /\ UNCHANGED <<final, ckpt, served, pc, cur, API_KEYS, start_offset,
                 current_offset, total_processed, monthly_articles, entries,
                 ei, runs, failedAttempts, metaFailed, pageLog, lastResp,
                 nreq, ckptRead, lastMeta, lastCited, step, envVars, annVars>>

CallFetchMetadata ==
  \E id \in FetchIds, outs \in AttemptSeqs :
    LET r == fetch_metadata(id, current_api_key_index, API_KEYS, outs)
    IN FetchCall("fetch_metadata", id, outs, r, r.isNone, r.value.Abstract, <<>>)

CallFetchAbstract ==
  \E id \in FetchIds, outs \in AttemptSeqs :
    LET r == fetch_abstract(id, current_api_key_index, API_KEYS, outs)
    IN FetchCall("fetch_abstract", id, outs, r, FALSE, r.value, <<>>)

CallFetchCitations ==
  \E id \in FetchIds, outs \in AttemptSeqs :
    LET r == fetch_citations(id, current_api_key_index, API_KEYS, outs)
    IN FetchCall("fetch_citations", id, outs, r, FALSE, "N/A", r.value)

InitFetch ==
  /\ final = NoFiles
  /\ ckpt = [b \in Buckets |-> NoFiles]
  /\ served = [b \in Buckets |-> MaxServed]
  /\ pc = "fetch"
  /\ cur = 1
  /\ API_KEYS \in 1..MaxKeys
  /\ current_api_key_index \in 0..(API_KEYS - 1)
  /\ start_offset = 0
  /\ current_offset = 0
  /\ total_processed = 0
  /\ monthly_articles = <<>>
  /\ entries = <<>>
  /\ ei = 0
  /\ runs = 1
  /\ failedAttempts = 0
  /\ metaFailed = [b \in Buckets |-> {}]
  /\ pageLog = <<>>
  /\ lastResp = "none"
  /\ nreq = 0
  /\ ckptRead = FALSE
  /\ lastMeta = "none"
  /\ lastCited = FALSE
  /\ step = "Init"
  /\ fetchLog = NoFetch
  /\ dotenvKeys = MaxKeys
  /\ environKeys = MaxKeys
  /\ pauses = 0
  /\ AnnotatorAtRest

NextFetch ==
  \/ CallFetchMetadata
  \/ CallFetchAbstract
  \/ CallFetchCitations

SpecFetch == InitFetch /\ [][NextFetch]_vars

\* ------------------------------------------------- pause and key reload
\* What select and readline find on stdin: no line, or one line of text.
StdinLines == {"<none>", "p", "P", "x"}

\* Lines 39-47: true when a line is waiting and is 'p' in either case.
check_for_pause(line) == line \in {"p", "P"}

\* load_dotenv() with its default override=False: a variable that is
\* already in os.environ keeps its value, the file's value is taken only
\* for a variable that is not set.
\* (mutant) load_dotenv(override=True): the file wins over the environment
load_dotenv_override(environ, dotenv) == IF dotenv = 0 THEN environ ELSE dotenv

load_dotenv(environ, dotenv) == IF environ = 0 THEN dotenv ELSE environ

\* Lines 18-23: the pool at start-up; without SCOPUS_API_KEYS it is the one
\* key of SCOPUS_API_KEY.
StartupKeys(keys_str) == IF keys_str > 0 THEN keys_str ELSE 1

\* Lines 56-61: the pool is replaced only when the variable is non-empty.
ReloadedKeys(keys, new_keys_str) == IF new_keys_str > 0 THEN new_keys_str ELSE keys

\* What the reload did to the pool, as observed after the Resume step.
PoolChange(keys, new_keys) == IF new_keys = keys THEN "none" ELSE "resized"

Paused == pc \in {"paused_bucket", "paused_page"}

\* Lines 266-267, 274-275 with line 50: check_for_pause returns True and
\* pause_and_reload is entered.
PauseSignal ==
  /\ pauses < MaxPauses
  /\ \/ /\ pc = "bucket"
        /\ cur \in Buckets
        /\ ~OutputExists(final, cur)
        /\ pc' = "paused_bucket"
     \/ /\ pc = "page"
        /\ PageLoopRuns(current_offset)
        /\ pc' = "paused_page"
  /\ \E line \in StdinLines : check_for_pause(line)
  /\ pauses' = pauses + 1
  /\ Obs("PauseSignal", "none", 0, FALSE, "none")
  /\ UNCHANGED <<final, ckpt, served, cur, API_KEYS, current_api_key_index,
                 start_offset, current_offset, total_processed,
                 monthly_articles, entries, ei, runs, failedAttempts,
                 metaFailed, pageLog, fetchLog, dotenvKeys, environKeys,
                 annVars>>

\* Lines 51-54: no pause signal, sleep one second and look again.
PauseWait ==
  /\ Paused
  /\ \E line \in StdinLines : ~check_for_pause(line)
  /\ Obs("PauseWait", "none", 0, FALSE, "none")
  /\ UNCHANGED <<final, ckpt, served, pc, cur, API_KEYS, current_api_key_index,
                 start_offset, current_offset, total_processed,
                 monthly_articles, entries, ei, runs, failedAttempts,
                 metaFailed, pageLog, fetchLog, envVars, annVars>>

\* The operator edits the list of keys in the .env file during the pause.
EditDotenv ==
  /\ Paused
  /\ dotenvKeys' \in (0..MaxKeys) \ {dotenvKeys}
  /\ Obs("EditDotenv", "none", 0, FALSE, "none")
  /\ UNCHANGED <<final, ckpt, served, pc, cur, API_KEYS, current_api_key_index,
                 start_offset, current_offset, total_processed,
                 monthly_articles, entries, ei, runs, failedAttempts,
                 metaFailed, pageLog, fetchLog, environKeys, pauses, annVars>>

\* Lines 52-61: the second pause signal; the keys are read again.
Resume ==
  /\ Paused
  /\ \E line \in StdinLines : check_for_pause(line)
  /\ environKeys' = load_dotenv(environKeys, dotenvKeys)
  /\ API_KEYS' = ReloadedKeys(API_KEYS, environKeys')
  /\ pc' = IF pc = "paused_bucket" THEN "resumed_bucket" ELSE "resumed_page"
  /\ Obs("Resume", PoolChange(API_KEYS, API_KEYS'), 0, FALSE, "none")
  /\ UNCHANGED <<final, ckpt, served, cur, current_api_key_index,
                 start_offset, current_offset, total_processed,
                 monthly_articles, entries, ei, runs, failedAttempts,
                 metaFailed, pageLog, fetchLog, dotenvKeys, pauses, annVars>>

\* Line 269 after pause_and_reload has returned.
BeginBucketResumed == BeginBucketAt("resumed_bucket")

\* Lines 276-277 after pause_and_reload has returned.
PageResumed == PageAt("resumed_page")

\* The upstream serves entries for one bucket: two pages with the second
\* one short, or more than the offset limit.
PauseServedProfiles ==
  {f \in [Buckets -> {0, COUNT + 1, MaxServed}] :
     Cardinality({b \in Buckets : f[b] > 0}) = 1}

InitPause ==
  /\ final = NoFiles
  /\ ckpt = [b \in Buckets |-> NoFiles]
  /\ served \in PauseServedProfiles
  /\ pc = "bucket"
  /\ cur = 1
  /\ dotenvKeys \in 0..MaxKeys
  /\ environKeys = load_dotenv(0, dotenvKeys)
  /\ API_KEYS = StartupKeys(environKeys)
  /\ current_api_key_index = 0
  /\ start_offset = 0
  /\ current_offset = 0
  /\ total_processed = 0
  /\ monthly_articles = <<>>
  /\ entries = <<>>
  /\ ei = 0
  /\ runs = 1
  /\ failedAttempts = 0
  /\ metaFailed = [b \in Buckets |-> {}]
  /\ pageLog = <<>>
  /\ lastResp = "none"
  /\ nreq = 0
  /\ ckptRead = FALSE
  /\ lastMeta = "none"
  /\ lastCited = FALSE
  /\ step = "Init"
  /\ fetchLog = NoFetch
  /\ pauses = 0
  /\ AnnotatorAtRest

\* One run over buckets that have no output file yet.
NextPause ==
  \/ Finish
  \/ BeginBucket
  \/ PageLimit
  \/ Page
  \/ Entry
  \/ Backup
  \/ WriteFinal
  \/ PauseSignal
  \/ PauseWait
  \/ EditDotenv
  \/ Resume
  \/ BeginBucketResumed
  \/ PageResumed

SpecPause == InitPause /\ [][NextPause]_vars

\* ---------------------------------------------------------- the annotator
\* A field a record does not have, and a field that is null.
Missing == -2
Null == -1
NoText == "<missing>"
NoId == "<missing>"

\* What bino.compute_score does with the texts of the model: a score below
\* both thresholds, a score above both, an exception.
LowScore == 8000
HighScore == 9500
StoredScore == 5000
compute_score(abstract) ==
  CASE abstract = "t1" -> [raised |-> FALSE, score |-> LowScore]
    [] abstract = "t2" -> [raised |-> FALSE, score |-> HighScore]
    [] OTHER -> [raised |-> TRUE, score |-> Null]

\* Line 42, and its mutant that tests the key only.
AlreadyScoredKeyOnly(article) == article.Binoculars_Score # Missing
AlreadyScored(article) ==
  article.Binoculars_Score # Missing /\ article.Binoculars_Score # Null

\* Line 45: article.get("Abstract", "").
AbstractOf(article) == IF article.Abstract = NoText THEN "" ELSE article.Abstract

\* Line 48.
NoAbstract(abstract) == abstract = "" \/ abstract = "N/A"

\* Lines 56-57, and the mutant with a strict comparison.
accuracy_prediction_strict(score) ==
  IF score > BINOCULARS_ACCURACY_THRESHOLD THEN 0 ELSE 1
accuracy_prediction(score) ==
  IF score >= BINOCULARS_ACCURACY_THRESHOLD THEN 0 ELSE 1
\* (mutant) the labels of the low-false-positive threshold are exchanged
fpr_prediction_inverted(score) ==
  IF score >= BINOCULARS_FPR_THRESHOLD THEN 1 ELSE 0
fpr_prediction(score) == IF score >= BINOCULARS_FPR_THRESHOLD THEN 0 ELSE 1

\* Line 61: article.get('Scopus_ID', '').  Line 105: article.get('Scopus_ID')
\* is None for a record without the key, and None is no key of scores_dict.
\* The mutant of line 105 has the default of line 61.
ReadId(article) == IF article.Scopus_ID = NoId THEN "" ELSE article.Scopus_ID
MergeIdDefaulted(article) == ReadId(article)
MergeId(article) == article.Scopus_ID

\* Lines 60-65.
processed_item(id, score) ==
  [Scopus_ID |-> id,
   Binoculars_Score |-> score,
   Accuracy_Prediction |-> accuracy_prediction(score),
   FPR_Prediction |-> fpr_prediction(score)]

\* Lines 52-66 with 85-86: the item is appended when compute_score has
\* returned; when it raised, the handler logs and the list stays.  The
\* mutant appends in both cases.
ItemsAfterAppendAlways(items, id, r) == Append(items, processed_item(id, r.score))
ItemsAfter(items, id, r) ==
  IF r.raised THEN items ELSE Append(items, processed_item(id, r.score))

\* Line 104: a dict comprehension keeps, for a key that repeats, the last
\* item.  The mutant keeps the first.
scores_dict_first(items) ==
  [id \in {items[i].Scopus_ID : i \in DOMAIN items} |->
     items[CHOOSE i \in DOMAIN items :
             /\ items[i].Scopus_ID = id
             /\ \A j \in DOMAIN items : items[j].Scopus_ID = id => i <= j]]
scores_dict(items) ==
  [id \in {items[i].Scopus_ID : i \in DOMAIN items} |->
     items[CHOOSE i \in DOMAIN items :
             /\ items[i].Scopus_ID = id
             /\ \A j \in DOMAIN items : items[j].Scopus_ID = id => j <= i]]

\* Lines 105-110, and a mutant that pairs records and items by position.
MergeScoresByPosition(d, items) ==
  [i \in DOMAIN d |->
     IF i \in DOMAIN items
       THEN [d[i] EXCEPT
               !.Binoculars_Score = items[i].Binoculars_Score,
               !.Accuracy_Prediction = items[i].Accuracy_Prediction,
               !.FPR_Prediction = items[i].FPR_Prediction]
       ELSE d[i]]
MergeScores(d, items) ==
  LET sd == scores_dict(items) IN
    [i \in DOMAIN d |->
       IF MergeId(d[i]) \in DOMAIN sd
         THEN [d[i] EXCEPT
                 !.Binoculars_Score = sd[MergeId(d[i])].Binoculars_Score,
                 !.Accuracy_Prediction = sd[MergeId(d[i])].Accuracy_Prediction,
                 !.FPR_Prediction = sd[MergeId(d[i])].FPR_Prediction]
         ELSE d[i]]

\* Line 92, and its mutant that goes on with an empty list.
NothingProcessedNever(items) == FALSE
NothingProcessed(items) == items = <<>>

\* Paths: a directory (its components), a stem and a suffix.
MkPath(dir, stem, suffix) == [dir |-> dir, stem |-> stem, suffix |-> suffix]

\* analyze_abstracts, lines 157-163 (main) and 144-150 (patch): the first
\* target file of each script, and the two arguments made of it.
input_dir(v) == IF v = "main" THEN <<"data", "comp", "pre">> ELSE <<".">>
output_dir_same(v) == input_dir(v)
output_dir(v) ==
  IF v = "main" THEN <<"data", "comp-proc">>
                ELSE <<"data", "comp-proc", "post", "2023">>
TargetDir(v) == IF v = "main" THEN <<"2021">> ELSE <<>>
TargetStem(v) == IF v = "main" THEN <<"APRIL_comp_2021">> ELSE <<"MAY_comp_2023">>
InputPath(v) == MkPath(input_dir(v) \o TargetDir(v), TargetStem(v), ".json")
OutputPath(v) == MkPath(output_dir(v) \o TargetDir(v), TargetStem(v), ".json")

\* Patch lines 113-114: Path(".") / f"{input_file.stem}_patched{input_file.suffix}".
patched_filename(inp) == MkPath(<<".">>, inp.stem \o <<"_patched">>, inp.suffix)

\* The path opened for writing: line 116 (main), line 115 (patch).
WrittenPath(v, inp, out) == IF v = "main" THEN out ELSE patched_filename(inp)

\* Line 113: mkdir(parents=True, exist_ok=True) of the parent of the output
\* file; the patch script makes no directory.
Prefixes(dir) == {SubSeq(dir, 1, n) : n \in 1..Len(dir)}
MadeDirs(v, out) == IF v = "main" THEN Prefixes(out.dir) ELSE {}

\* The records of the input documents: every way a record can stand to the
\* skip rule, under every kind of identifier.
ArticleIds == {NoId, "", "a"}
Article(id, abstract, score) ==
  [Scopus_ID |-> id, Title |-> "title", Abstract |-> abstract,
   Binoculars_Score |-> score,
   Accuracy_Prediction |-> IF score >= 0 THEN 1 ELSE Missing,
   FPR_Prediction |-> IF score >= 0 THEN 1 ELSE Missing]
Articles ==
  {Article(id, "t1", StoredScore) : id \in ArticleIds}
    \cup {Article(id, "t1", Null) : id \in ArticleIds}
    \cup {Article(id, a, Missing) :
            id \in ArticleIds, a \in {"t1", "t2", "t3", NoText, "", "N/A"}}

\* A document is a JSON array; a file cut short (see KillInFinal) yields
\* its records to the streaming parser and then makes it raise.
InputDocuments ==
  {[ok |-> ok, data |-> d] :
     ok \in BOOLEAN,
     d \in UNION {[1..n -> Articles] : n \in 0..MaxRecords}}

Returned(value) ==
  /\ apc' = "returned"
  /\ ret' = value

\* Lines 40-86: the body of the for loop for the next record of the stream.
ReadRecord ==
  /\ apc = "read"
  /\ ri < Len(disk[input_file].data)
  /\ ri' = ri + 1
  /\ LET article == disk[input_file].data[ri + 1]
         abstract == AbstractOf(article)
         r == compute_score(abstract)
     IN IF AlreadyScored(article) \/ NoAbstract(abstract)
          THEN UNCHANGED <<processed_items, calls>>
          ELSE /\ calls' = Append(calls, [i |-> ri + 1, abstract |-> abstract,
                                          raised |-> r.raised, score |-> r.score])
               /\ processed_items' = ItemsAfter(processed_items, ReadId(article), r)
  /\ UNCHANGED <<variant, input_file, output_file, disk, dirs, apc, document,
                 ret, written>>
  /\ UNCHANGED <<harvVars, loopVars>>

\* Lines 38-39 with 124-128: the parser raises at the end of a file that is
\* no complete array; the outer handler returns False.
ReadError ==
  /\ apc = "read"
  /\ ri = Len(disk[input_file].data)
  /\ ~disk[input_file].ok
  /\ Returned("False")
  /\ UNCHANGED <<variant, input_file, output_file, disk, dirs, ri,
                 processed_items, document, calls, written>>
  /\ UNCHANGED <<harvVars, loopVars>>

\* Lines 92-94.
NothingNew ==
  /\ apc = "read"
  /\ ri = Len(disk[input_file].data)
  /\ disk[input_file].ok
  /\ NothingProcessed(processed_items)
  /\ Returned("False")
  /\ UNCHANGED <<variant, input_file, output_file, disk, dirs, ri,
                 processed_items, document, calls, written>>
  /\ UNCHANGED <<harvVars, loopVars>>

\* Lines 100-110: the file is loaded again and the scores are merged in.
Merge ==
  /\ apc = "read"
  /\ ri = Len(disk[input_file].data)
  /\ disk[input_file].ok
  /\ ~NothingProcessed(processed_items)
  /\ document' = MergeScores(disk[input_file].data, processed_items)
  /\ apc' = "write"
  /\ UNCHANGED <<variant, input_file, output_file, disk, dirs, ri,
                 processed_items, ret, calls, written>>
  /\ UNCHANGED <<harvVars, loopVars>>

\* Lines 112-122 (main), 112-121 (patch): the document is written and True
\* is returned.
WriteOutput ==
  /\ apc = "write"
  /\ LET path == WrittenPath(variant, input_file, output_file) IN
       /\ dirs' = dirs \cup MadeDirs(variant, output_file)
       /\ disk' = (path :> [ok |-> TRUE, data |-> document]) @@ disk
       /\ written' = written \cup {path}
  /\ Returned("True")
  /\ UNCHANGED <<variant, input_file, output_file, ri, processed_items,
                 document, calls>>
  /\ UNCHANGED <<harvVars, loopVars>>

\* The harvester is a separate script: it is not running while the
\* annotator is.
HarvesterAtRest ==
  /\ final = NoFiles
  /\ ckpt = [b \in Buckets |-> NoFiles]
  /\ served = [b \in Buckets |-> 0]
  /\ pc = "off"
  /\ cur = 1
  /\ API_KEYS = MaxKeys
  /\ current_api_key_index = 0
  /\ start_offset = 0
  /\ current_offset = 0
  /\ total_processed = 0
  /\ monthly_articles = <<>>
  /\ entries = <<>>
  /\ ei = 0
  /\ runs = 1
  /\ failedAttempts = 0
  /\ metaFailed = [b \in Buckets |-> {}]
  /\ pageLog = <<>>
  /\ lastResp = "none"
  /\ nreq = 0
  /\ ckptRead = FALSE
  /\ lastMeta = "none"
  /\ lastCited = FALSE
  /\ step = "Init"
  /\ fetchLog = NoFetch
  /\ dotenvKeys = MaxKeys
  /\ environKeys = MaxKeys
  /\ pauses = 0

\* process_file_streaming is entered for the first target of either script;
\* the input file exists (line 165), nothing has been written yet.
InitAnnot ==
  /\ HarvesterAtRest
  /\ variant \in {"main", "patch"}
  /\ input_file = InputPath(variant)
  /\ output_file = OutputPath(variant)
  /\ \E d \in InputDocuments : disk = (input_file :> d)
  /\ dirs = Prefixes(input_file.dir)
  /\ apc = "read"
  /\ ri = 0
  /\ processed_items = <<>>
  /\ document = <<>>
  /\ ret = "None"
  /\ calls = <<>>
  /\ written = {}
  /\ LoopAtRest

NextAnnot ==
  \/ ReadRecord
  \/ ReadError
  \/ NothingNew
  \/ Merge
  \/ WriteOutput

SpecAnnot == InitAnnot /\ [][NextAnnot]_vars

\* ------------------------------------------------- analyze_abstracts loop
\* Lines 139-154 (main, its first two targets) and 137-140 (patch): the
\* target files, each a directory below input_dir and a stem.
target_files(v) ==
  IF v = "main"
    THEN <<[dir |-> <<"2021">>, stem |-> <<"APRIL_comp_2021">>],
           [dir |-> <<"2021">>, stem |-> <<"FEBRUARY_comp_2021">>]>>
    ELSE <<[dir |-> <<>>, stem |-> <<"MAY_comp_2023">>],
           [dir |-> <<>>, stem |-> <<"JULY_comp_2023">>]>>

\* Lines 162-163: input_dir / file_path and output_dir / file_path.
InputPathOf(v, t) == MkPath(input_dir(v) \o t.dir, t.stem, ".json")
OutputPathOf(v, t) == MkPath(output_dir(v) \o t.dir, t.stem, ".json")

\* json.dump writes the text piece by piece: a write that stops early
\* leaves the first n records and no closing bracket.
PartialDocument(doc, n) == [ok |-> FALSE, data |-> SubSeq(doc, 1, n)]

\* The records of the target files of the loop: one that is scored, one
\* whose scoring raises, one that is skipped.
LoopArticles ==
  {Article("a", "t1", Missing), Article("a", "t3", Missing),
   Article("a", "t1", StoredScore)}
LoopDocuments ==
  {[ok |-> ok, data |-> d] :
     ok \in BOOLEAN, d \in {<<>>} \cup {<<a>> : a \in LoopArticles}}

\* (mutant) the count goes up for every call that returned
SuccessCountAfterAlways(count, value) == count + 1

\* Lines 170-171: if process_file_streaming(...): success_count += 1.
SuccessCountAfter(count, value) == IF value = "True" THEN count + 1 ELSE count

\* Lines 161-167: the next target has no input file; it is logged and the
\* loop goes on.
SkipMissing ==
  /\ apc = "loop"
  /\ ti < Len(target_files(variant))
  /\ InputPathOf(variant, target_files(variant)[ti + 1]) \notin DOMAIN disk
  /\ ti' = ti + 1
  /\ attempts' = Append(attempts, [target |-> ti + 1, outcome |-> "missing"])
  /\ UNCHANGED <<variant, input_file, output_file, disk, dirs, apc, ri,
                 processed_items, document, ret, calls, written,
                 success_count>>
  /\ UNCHANGED harvVars

\* Lines 161-170: process_file_streaming is called for the next target.
EnterTarget ==
  /\ apc = "loop"
  /\ ti < Len(target_files(variant))
  /\ LET t == target_files(variant)[ti + 1] IN
       /\ InputPathOf(variant, t) \in DOMAIN disk
       /\ input_file' = InputPathOf(variant, t)
       /\ output_file' = OutputPathOf(variant, t)
  /\ ti' = ti + 1
  /\ apc' = "read"
  /\ ri' = 0
  /\ processed_items' = <<>>
  /\ document' = <<>>
  /\ ret' = "None"
  /\ calls' = <<>>
  /\ UNCHANGED <<variant, disk, dirs, written, success_count, attempts>>
  /\ UNCHANGED harvVars

\* Lines 112-117 with 124-128: json.dump raises after the file has been
\* opened for writing (an unencodable character, a full disk); the outer
\* handler logs and returns False.
WriteError ==
  /\ apc = "write"
  /\ LET path == WrittenPath(variant, input_file, output_file) IN
       /\ dirs' = dirs \cup MadeDirs(variant, output_file)
       /\ \E n \in 0..(Len(document) - 1) :
            disk' = (path :> PartialDocument(document, n)) @@ disk
       /\ written' = written \cup {path}
  /\ Returned("False")
  /\ UNCHANGED <<variant, input_file, output_file, ri, processed_items,
                 document, calls>>
  /\ UNCHANGED <<harvVars, loopVars>>

\* The process is terminated while json.dump is writing.
KillInWrite ==
  /\ apc = "write"
  /\ LET path == WrittenPath(variant, input_file, output_file) IN
       /\ dirs' = dirs \cup MadeDirs(variant, output_file)
       /\ \E n \in 0..(Len(document) - 1) :
            disk' = (path :> PartialDocument(document, n)) @@ disk
       /\ written' = written \cup {path}
  /\ apc' = "killed"
  /\ UNCHANGED <<variant, input_file, output_file, ri, processed_items,
                 document, ret, calls>>
  /\ UNCHANGED <<harvVars, loopVars>>

\* Lines 170-171: the call has returned; the count goes up on True.
Tally ==
  /\ apc = "returned"
  /\ success_count' = SuccessCountAfter(success_count, ret)
  /\ attempts' = Append(attempts, [target |-> ti, outcome |-> ret])
  /\ apc' = "loop"
  /\ UNCHANGED <<variant, input_file, output_file, disk, dirs, ri,
                 processed_items, document, ret, calls, written, ti>>
  /\ UNCHANGED harvVars

\* Lines 173-174: the list is exhausted, the count is logged.
LoopEnd ==
  /\ apc = "loop"
  /\ ti = Len(target_files(variant))
  /\ apc' = "done"
  /\ UNCHANGED <<variant, input_file, output_file, disk, dirs, ri,
                 processed_items, document, ret, calls, written, loopVars>>
  /\ UNCHANGED harvVars

\* analyze_abstracts is entered: each target has an input file or none, and
\* no output yet.
InitAnalyze ==
  /\ HarvesterAtRest
  /\ variant \in {"main", "patch"}
  /\ input_file = InputPathOf(variant, target_files(variant)[1])
  /\ output_file = OutputPathOf(variant, target_files(variant)[1])
  /\ \E present \in SUBSET (1..Len(target_files(variant))) :
       \E docs \in [present -> LoopDocuments] :
         /\ disk = [p \in {InputPathOf(variant, target_files(variant)[i]) :
                             i \in present} |->
                      docs[CHOOSE i \in present :
                             InputPathOf(variant, target_files(variant)[i]) = p]]
         /\ dirs = UNION {Prefixes(p.dir) : p \in DOMAIN disk}
  /\ apc = "loop"
  /\ ri = 0
  /\ processed_items = <<>>
  /\ document = <<>>
  /\ ret = "None"
  /\ calls = <<>>
  /\ written = {}
  /\ LoopAtRest

NextAnalyze ==
  \/ SkipMissing
  \/ EnterTarget
  \/ ReadRecord
  \/ ReadError
  \/ NothingNew
  \/ Merge
  \/ WriteOutput
  \/ WriteError
  \/ KillInWrite
  \/ Tally
  \/ LoopEnd

SpecAnalyze == InitAnalyze /\ [][NextAnalyze]_vars

\* -------------------------------------------- a second run on the output
\* process_file_streaming is called again, on the file the first call has
\* written, with an output path of its own.
RerunOutputPath(inp) == MkPath(<<"rerun">>, inp.stem, inp.suffix)

RunOnOutput ==
  /\ apc = "returned"
  /\ ret = "True"
  /\ input_file \notin written
  /\ input_file' = WrittenPath(variant, input_file, output_file)
  /\ output_file' = RerunOutputPath(input_file')
  /\ apc' = "read"
  /\ ri' = 0
  /\ processed_items' = <<>>
  /\ document' = <<>>
  /\ ret' = "None"
  /\ calls' = <<>>
  /\ UNCHANGED <<variant, disk, dirs, written>>
  /\ UNCHANGED <<harvVars, loopVars>>

InitRerun == InitAnnot

NextRerun ==
  \/ ReadRecord
  \/ ReadError
  \/ NothingNew
  \/ Merge
  \/ WriteOutput
  \/ RunOnOutput

SpecRerun == InitRerun /\ [][NextRerun]_vars

\* ------------------------------------------------------ thresholding alone
\* Lines 53-65 for scores around the two thresholds and far from them.
ScoreSpan == 3
ScoreMax == 10000
MaxPredictions == 2
ThresholdScores ==
  {0, ScoreMax}
    \cup ((BINOCULARS_ACCURACY_THRESHOLD - ScoreSpan)
           ..(BINOCULARS_ACCURACY_THRESHOLD + ScoreSpan))
    \cup ((BINOCULARS_FPR_THRESHOLD - ScoreSpan)
           ..(BINOCULARS_FPR_THRESHOLD + ScoreSpan))

Predict ==
  /\ apc = "threshold"
  /\ Len(processed_items) < MaxPredictions
  /\ \E score \in ThresholdScores :
       processed_items' = Append(processed_items, processed_item("a", score))
  /\ UNCHANGED <<variant, input_file, output_file, disk, dirs, apc, ri,
                 document, ret, calls, written>>
  /\ UNCHANGED <<harvVars, loopVars>>

InitThreshold ==
  /\ HarvesterAtRest
  /\ variant \in {"main", "patch"}
  /\ input_file = InputPath(variant)
  /\ output_file = OutputPath(variant)
  /\ disk = <<>>
  /\ dirs = {}
  /\ apc = "threshold"
  /\ ri = 0
  /\ processed_items = <<>>
  /\ document = <<>>
  /\ ret = "None"
  /\ calls = <<>>
  /\ written = {}
  /\ LoopAtRest

NextThreshold == Predict

SpecThreshold == InitThreshold /\ [][NextThreshold]_vars

\* ---------------------------------------- the harvester's patch script
\* src/Scopus/0_compsci_patch.py: two months, no final output file, no
\* offset limit; a record is what fetch_metadata returned.
\*   "retry"   429, or a body that is no JSON: cycle the key and ask again
\*   "nokey"   no search-results in the body: save, cycle the key, break
\*   "empty"   no entries: save, break
\*   "entries" the for loop runs over the page
PatchControl(status, body, page) ==
  IF status = "429" THEN "retry"
  ELSE IF body = "unparsable" THEN "retry"
  ELSE IF body = "nokey" THEN "nokey"
  ELSE IF page = <<>> THEN "empty"
  ELSE "entries"

\* Every backup of the patch script is named by len(articles).
PatchBackupData(cks, articles) == (Len(articles) :> WholeFile(articles)) @@ cks

\* Lines 255-271: the month is resumed from its latest checkpoint.
PatchBeginBucket ==
  /\ pc = "bucket"
  /\ cur \in Buckets
  /\ LET r == resume_backup(ckpt[cur]) IN
       IF r.raised
         THEN Stopped("raised")
         ELSE /\ pc' = "page"
              /\ start_offset' = r.start_offset
              /\ monthly_articles' = r.articles
              /\ current_offset' = r.start_offset
              /\ UNCHANGED <<cur, API_KEYS, current_api_key_index, entries, ei,
                             total_processed, pageLog>>
  /\ Obs("PatchBeginBucket", "none", 0, DOMAIN ckpt[cur] # {}, "none")
  /\ UNCHANGED <<final, ckpt, served, runs, failedAttempts, metaFailed,
                 fetchLog, envVars, annVars>>

\* Lines 273-311: one page request and what follows from its response.
PatchPage ==
  /\ pc = "page"
  /\ \E status \in PageStatuses, body \in PageBodies :
       LET page == IF status = "200" /\ body = "results"
                     THEN SearchPage(cur, current_offset) ELSE <<>>
           ctl == PatchControl(status, body, page)
       IN /\ IF get_headers_raises(current_api_key_index, API_KEYS)
               THEN Stopped("raised")
             ELSE /\ IF ctl = "retry"
                       THEN /\ current_api_key_index' =
                                 cycle_api_key(current_api_key_index, API_KEYS)
                            /\ UNCHANGED <<pc, entries, ei>>
                     ELSE IF ctl = "entries"
                       THEN /\ pc' = "entry"
                            /\ entries' = page
                            /\ ei' = 1
                            /\ UNCHANGED current_api_key_index
                     ELSE /\ pc' = ctl
                          /\ UNCHANGED <<entries, ei, current_api_key_index>>
                  /\ UNCHANGED <<cur, API_KEYS, start_offset, current_offset,
                                 total_processed, monthly_articles, pageLog>>
          /\ Obs("PatchPage", status, 1, FALSE, "none")
  /\ UNCHANGED <<final, ckpt, served, runs, failedAttempts, metaFailed,
                 fetchLog, envVars, annVars>>

\* Lines 296-311: the backup before the break; the key is cycled when the
\* body had no search-results.
PatchBreakBackup ==
  /\ pc \in {"nokey", "empty"}
  /\ IF monthly_articles # <<>>
       THEN ckpt' = [ckpt EXCEPT ![cur] = PatchBackupData(@, monthly_articles)]
       ELSE UNCHANGED ckpt
  /\ current_api_key_index' =
       IF pc = "nokey" THEN cycle_api_key(current_api_key_index, API_KEYS)
                       ELSE current_api_key_index
  /\ pc' = "final"
  /\ Obs("PatchBreakBackup", "none", 0, FALSE, "none")
  /\ UNCHANGED <<final, served, cur, API_KEYS, start_offset, current_offset,
                 total_processed, monthly_articles, entries, ei, runs,
                 failedAttempts, metaFailed, pageLog, fetchLog, envVars,
                 annVars>>

\* Lines 313-326: the body of the for loop for one entry, up to the
\* checkpoint test.  Neither fetch_abstract nor fetch_citations is called.
PatchEntry ==
  /\ pc = "entry"
  /\ \E mo \in HarvestAttempts :
       LET id == entries[ei]
           m == fetch_metadata(id, current_api_key_index, API_KEYS, mo)
       IN /\ failedAttempts + Fails(mo) <= MaxFailedAttempts
          /\ failedAttempts' = failedAttempts + Fails(mo)
          /\ current_api_key_index' = m.idx
          /\ IF m.isNone
               THEN /\ metaFailed' = [metaFailed EXCEPT ![cur] = @ \cup {id}]
                    /\ UNCHANGED monthly_articles
                    /\ NextEntry
               ELSE /\ monthly_articles' = Append(monthly_articles, m.value)
                    /\ UNCHANGED metaFailed
                    /\ IF BackupDue(Len(monthly_articles) + 1)
                         THEN /\ pc' = "backup"
                              /\ UNCHANGED <<ei, current_offset>>
                         ELSE NextEntry
          /\ Obs("PatchEntry", "none", Len(m.keys), FALSE,
                 IF m.isNone THEN "None" ELSE "ok")
  /\ UNCHANGED <<final, ckpt, served, cur, API_KEYS, start_offset,
                 total_processed, entries, runs, pageLog, fetchLog, envVars,
                 annVars>>

\* Lines 327-330: the backup every BACKUP_INTERVAL articles.
PatchBackup ==
  /\ pc = "backup"
  /\ ckpt' = [ckpt EXCEPT ![cur] = PatchBackupData(@, monthly_articles)]
  /\ NextEntry
  /\ Obs("PatchBackup", "none", 0, FALSE, "none")
  /\ UNCHANGED <<final, served, cur, API_KEYS, current_api_key_index,
                 start_offset, total_processed, monthly_articles, entries,
                 runs, failedAttempts, metaFailed, pageLog, fetchLog, envVars,
                 annVars>>

\* Lines 337-343: the final backup of the month, on to the next month.
PatchFinalBackup ==
  /\ pc = "final"
  /\ IF monthly_articles # <<>>
       THEN ckpt' = [ckpt EXCEPT ![cur] = PatchBackupData(@, monthly_articles)]
       ELSE UNCHANGED ckpt
  /\ pc' = "bucket"
  /\ cur' = cur + 1
  /\ Obs("PatchFinalBackup", "none", 0, FALSE, "none")
  /\ UNCHANGED <<final, served, API_KEYS, current_api_key_index, start_offset,
                 current_offset, total_processed, monthly_articles, entries,
                 ei, runs, failedAttempts, metaFailed, pageLog, fetchLog,
                 envVars, annVars>>

\* The process is terminated inside backup_data (lines 197-198): the file
\* named by len(articles) has been truncated and json.dump has not finished.
PatchKillInBackup ==
  /\ pc \in {"backup", "nokey", "empty", "final"}
  /\ monthly_articles # <<>>
  /\ runs < MaxRuns
  /\ ckpt' = [ckpt EXCEPT ![cur] = (Len(monthly_articles) :> PartialFile) @@ @]
  /\ Stopped("killed")
  /\ Obs("PatchKillInBackup", "none", 0, FALSE, "none")
  /\ UNCHANGED <<final, served, runs, failedAttempts, metaFailed, fetchLog,
                 envVars, annVars>>

\* The steps the running script takes by itself.
PatchStep ==
  \/ PatchBeginBucket
  \/ PatchPage
  \/ PatchEntry
  \/ PatchBackup
  \/ PatchBreakBackup
  \/ PatchFinalBackup
  \/ Finish

InitPatch == Init

NextPatch ==
  \/ Start
  \/ Finish
  \/ PatchBeginBucket
  \/ PatchPage
  \/ PatchEntry
  \/ PatchBackup
  \/ PatchBreakBackup
  \/ PatchFinalBackup
  \/ Kill
  \/ PatchKillInBackup

\* A running script takes its next step.
SpecPatch == InitPatch /\ [][NextPatch]_vars /\ WF_vars(PatchStep)

\* ================================================================ claims
Running == pc \in {"bucket", "page", "entry", "backup", "final"}
InBucket == pc \in {"page", "entry", "backup", "final"}
Counts(b) == DOMAIN ckpt[b]

\* C1: in a resumed run no upstream entry whose record is already in the
\* loaded checkpoint list is appended again: the accumulated record list of a
\* bucket never holds the same upstream entry twice.
C1_NoEntryTwice ==
  InBucket => NoDuplicates(Ids(monthly_articles))

\* C2: whenever the final output file of a bucket exists, it holds a record
\* for every entry the search serves for the bucket below the offset limit,
\* except the entries whose metadata fetch failed.
C2_FinalFileComplete ==
  \A b \in DOMAIN final :
    \A id \in 0..(Min2(served[b], OFFSET_LIMIT) - 1) :
      id \notin metaFailed[b] => id \in IdSet(final[b].data)

\* C3: resume_backup returns the highest checkpoint count together with the
\* list stored in that checkpoint, which has exactly that many entries, or
\* offset 0 and the empty list when the bucket has no checkpoint; the first
\* page request of the bucket starts at the returned offset.
C3_ResumeFromLatest ==
  /\ [][(step' = "BeginBucket") =>
          /\ pc' = "page"
          /\ IF Counts(cur) = {}
               THEN start_offset' = 0 /\ monthly_articles' = <<>>
               ELSE /\ start_offset' = Max(Counts(cur))
                    /\ monthly_articles' = ckpt[cur][Max(Counts(cur))].data
                    /\ Len(monthly_articles') = Max(Counts(cur))]_vars
  /\ [](InBucket /\ pageLog # <<>> => pageLog[1].start = start_offset)

\* C4: for a bucket whose final output file exists at the start of its
\* iteration, the iteration issues no HTTP request, reads and writes no
\* checkpoint, leaves the final files and the credential pointer unchanged,
\* and moves on to the next bucket.
C4_SkipLeavesAllUntouched ==
  [][(pc = "bucket" /\ cur \in Buckets /\ cur \in DOMAIN final /\ pc' # "killed") =>
        /\ nreq' = 0
        /\ ckptRead' = FALSE
        /\ ckpt' = ckpt
        /\ final' = final
        /\ current_api_key_index' = current_api_key_index
        /\ pc' = "bucket"
        /\ cur' = cur + 1]_vars

C4_Witness ==
  /\ step = "SkipBucket"
  /\ cur = 2
  /\ ckpt[1] # NoFiles

\* C5: after a termination at any point of a bucket's processing, the next
\* invocation completes the bucket: once it has moved past the bucket, the
\* bucket's final output file is well formed and contains every record of
\* the bucket's latest checkpoint.
C5_RerunCompletesBucket ==
  \A b \in Buckets :
    (runs > 1 /\ Running /\ cur > b) =>
      /\ b \in DOMAIN final
      /\ final[b].ok
      /\ \A c \in Counts(b) :
           ckpt[b][c].ok => IdSet(ckpt[b][c].data) \subseteq IdSet(final[b].data)

\* C6: a page request answered with status 429 advances the credential
\* pointer by one modulo the pool size and is followed by a request for the
\* same offset; the page loop does not end because of the 429.
C6_Page429Retried ==
  [][(step' = "Page" /\ lastResp' = "429" /\ pc' # "raised") =>
        /\ current_api_key_index' = cycle_api_key(current_api_key_index, API_KEYS)
        /\ current_offset' = current_offset
        /\ pc' = "page"]_vars

\* C7: a call of fetch_metadata, fetch_abstract or fetch_citations issues at
\* most 3 requests; every request after a failed one is sent with the
\* pointer advanced by one modulo the pool size; after 3 failed attempts the
\* pointer has advanced three times and the call returns None, "N/A" and the
\* empty citation list respectively.
AllFailed(outs) == \A a \in 1..RETRIES : outs[a] # "ok"
C7_FetchRetriesAndRotates ==
  fetchLog.fn # "none" =>
    LET L == fetchLog
        k == Len(L.keys)
    IN /\ 1 <= k /\ k <= 3
       /\ L.keys[1] = L.idx0
       /\ \A i \in 1..(k - 1) :
            /\ L.outs[i] # "ok"
            /\ L.keys[i + 1] = (L.keys[i] + 1) % L.pool
       /\ current_api_key_index = L.idx1
       /\ IF AllFailed(L.outs)
            THEN /\ k = 3
                 /\ L.idx1 = (L.keys[3] + 1) % L.pool
                 /\ L.fn = "fetch_metadata" => L.isNone
                 /\ L.fn = "fetch_abstract" => L.abstract = "N/A"
                 /\ L.fn = "fetch_citations" => L.citations = <<>>
            ELSE /\ L.outs[k] = "ok"
                 /\ L.idx1 = L.keys[k]
                 /\ ~L.isNone

\* A call that used up its retries on a pool of two keys.
C7_Witness ==
  /\ fetchLog.fn = "fetch_metadata"
  /\ fetchLog.outs = <<"429", "badjson", "nokey">>
  /\ fetchLog.pool = 2
  /\ fetchLog.keys = <<0, 1, 0>>
  /\ fetchLog.isNone
  /\ current_api_key_index = 1

\* C8: when fetch_metadata returns None for an entry, no record is appended,
\* the processed count stays, no file is written, and the loop goes on with
\* the next entry of the page or, after the last one, with the page at the
\* next offset; the bucket is not abandoned.
C8_EnrichmentFailureSkipsOneEntry ==
  [][(lastMeta' = "None") =>
        /\ monthly_articles' = monthly_articles
        /\ total_processed' = total_processed
        /\ final' = final
        /\ ckpt' = ckpt
        /\ entries' = entries
        /\ IF ei < Len(entries)
             THEN pc' = "entry" /\ ei' = ei + 1 /\ current_offset' = current_offset
             ELSE pc' = "page" /\ current_offset' = current_offset + COUNT]_vars

\* An entry failed, and the bucket's final output was still written with the
\* records of the entries after it.
C8_Witness ==
  /\ step = "WriteFinal"
  /\ \E id \in metaFailed[1] :
       /\ 1 \in DOMAIN final
       /\ id + 1 \in IdSet(final[1].data)
       /\ id + COUNT \in IdSet(final[1].data)

\* C9: a checkpoint is written exactly when the accumulated count reaches a
\* positive multiple of BACKUP_INTERVAL; it is named by that count and holds
\* the whole list of that moment, so every checkpoint written holds as many
\* records as its name says, and total_processed is the length of the
\* record list at every step, also after a resume.
C9_CheckpointEveryInterval ==
  /\ InBucket => total_processed = Len(monthly_articles)
  /\ pc = "backup" => total_processed > 0 /\ total_processed % BACKUP_INTERVAL = 0
  /\ (pc \in {"page", "entry", "final"} /\ total_processed > start_offset
        /\ total_processed % BACKUP_INTERVAL = 0) =>
       /\ total_processed \in Counts(cur)
       /\ ckpt[cur][total_processed] = WholeFile(monthly_articles)
  /\ \A b \in Buckets : \A c \in Counts(b) :
       /\ c > 0
       /\ c % BACKUP_INTERVAL = 0
       /\ ckpt[b][c].ok => Len(ckpt[b][c].data) = c

\* A resumed run has written the next checkpoint.
C9_Witness ==
  /\ step = "Backup"
  /\ start_offset > 0
  /\ total_processed = start_offset + BACKUP_INTERVAL

\* C10: within one run of a bucket the page requests start at the resume
\* offset and go up by the page size; none has an offset at or beyond the
\* limit; none follows a page that returned zero entries.
C10_PageOffsets ==
  InBucket =>
    \A i \in 1..Len(pageLog) :
      /\ pageLog[i].start = start_offset + (i - 1) * COUNT
      /\ pageLog[i].start < OFFSET_LIMIT
      /\ i < Len(pageLog) => pageLog[i].n > 0

\* A resumed run whose second page came back empty.
C10_Witness ==
  /\ start_offset > 0
  /\ Len(pageLog) = 2
  /\ pageLog[2].status = "200"
  /\ pageLog[2].n = 0

\* C11: a pause check comes before every page request; from the first pause
\* signal to the second the process makes no HTTP request and writes no
\* file, only the second pause signal ends the pause, and the pool in use
\* after it is the pool listed in the credential source at that moment.
C11_PauseThenReload ==
  /\ [][step' = "Page" => pc \in {"page", "resumed_page"}]_vars
  /\ [][Paused => /\ nreq' = 0
                  /\ final' = final
                  /\ ckpt' = ckpt
                  /\ (~Paused' => step' = "Resume")]_vars
  /\ [][step' = "Resume" => API_KEYS' = StartupKeys(dotenvKeys)]_vars

\* ---- the annotator's claims
AnnInput == disk[input_file].data
Merged == apc = "write" \/ ret = "True"
CallsOn(i) == {k \in DOMAIN calls : calls[k].i = i}
NewlyScored(i) == \E k \in CallsOn(i) : ~calls[k].raised
ScoreOf(i) == calls[CHOOSE k \in CallsOn(i) : ~calls[k].raised].score
NewIds == {processed_items[k].Scopus_ID : k \in DOMAIN processed_items}
SameOtherFields(i) ==
  /\ document[i].Scopus_ID = AnnInput[i].Scopus_ID
  /\ document[i].Title = AnnInput[i].Title
  /\ document[i].Abstract = AnnInput[i].Abstract
Carries(i, score) ==
  /\ document[i].Binoculars_Score = score
  /\ document[i].Accuracy_Prediction = accuracy_prediction(score)
  /\ document[i].FPR_Prediction = fpr_prediction(score)
\* The last record of the array newly scored under the identifier id.
LastScoredAs(id) ==
  CHOOSE j \in DOMAIN AnnInput :
    /\ NewlyScored(j)
    /\ ReadId(AnnInput[j]) = id
    /\ \A k \in DOMAIN AnnInput :
         NewlyScored(k) /\ ReadId(AnnInput[k]) = id => k <= j

\* C12: in the merged document every record whose identifier is in the
\* newly computed set carries the score and the predictions computed for
\* that very record, and every other field of every record is as in the input.
C12_MergeCarriesOwnScore ==
  Merged =>
    /\ DOMAIN document = DOMAIN AnnInput
    /\ \A i \in DOMAIN AnnInput :
         /\ SameOtherFields(i)
         /\ MergeId(AnnInput[i]) \in NewIds =>
              NewlyScored(i) /\ Carries(i, ScoreOf(i))

\* C12, amended: every record whose identifier is in the newly computed set
\* carries the score and the predictions computed for the last record newly
\* scored under that identifier, and every other field is as in the input.
C12_MergeCarriesLastScore ==
  Merged =>
    /\ DOMAIN document = DOMAIN AnnInput
    /\ \A i \in DOMAIN AnnInput :
         /\ SameOtherFields(i)
         /\ MergeId(AnnInput[i]) \in NewIds =>
              Carries(i, ScoreOf(LastScoredAs(MergeId(AnnInput[i]))))

C12_Witness ==
  /\ ret = "True"
  /\ \E i, j \in DOMAIN AnnInput :
       /\ i < j
       /\ NewlyScored(i)
       /\ NewlyScored(j)
       /\ MergeId(AnnInput[i]) = MergeId(AnnInput[j])
       /\ ScoreOf(i) # ScoreOf(j)
       /\ Carries(i, ScoreOf(j))

\* The keys of the lookup of line 104.
LookupIds == {ReadId(AnnInput[j]) : j \in {k \in DOMAIN AnnInput : NewlyScored(k)}}

\* C13: in the merged document every record that was not newly scored is
\* identical to the record of the input, whatever the identifiers are.
C13_UnscoredUnchanged ==
  Merged => \A i \in DOMAIN AnnInput : ~NewlyScored(i) => document[i] = AnnInput[i]

\* C13, amended: every record that was not newly scored and whose
\* identifier is no key of the lookup is identical to the record of the
\* input; a record without identifier matches no key.
C13_AbsentFromLookupUnchanged ==
  Merged =>
    \A i \in DOMAIN AnnInput :
      ~NewlyScored(i) /\ AnnInput[i].Scopus_ID \notin LookupIds =>
        document[i] = AnnInput[i]

C13_Witness ==
  /\ ret = "True"
  /\ \E i, k \in DOMAIN AnnInput :
       /\ ~NewlyScored(i)
       /\ AnnInput[i].Scopus_ID = NoId
       /\ NewlyScored(k)
       /\ AnnInput[k].Scopus_ID = ""
       /\ document[k] # AnnInput[k]
       /\ document[i] = AnnInput[i]

\* The records the skip rule of the read phase lets through.
HasScore(article) == article.Binoculars_Score \notin {Missing, Null}
HasText(article) == article.Abstract \notin {NoText, "", "N/A"}

\* C14: compute_score is never invoked on a record that carries a non-null
\* score, nor on one whose abstract is missing, empty or "N/A"; on every
\* other record the stream has yielded it is invoked exactly once, with the
\* record's abstract.
C14_ScoredExactlyOnce ==
  /\ \A k \in DOMAIN calls :
       /\ calls[k].i \in 1..ri
       /\ ~HasScore(AnnInput[calls[k].i])
       /\ HasText(AnnInput[calls[k].i])
       /\ calls[k].abstract = AnnInput[calls[k].i].Abstract
  /\ \A i \in 1..ri :
       ~HasScore(AnnInput[i]) /\ HasText(AnnInput[i]) =>
         Cardinality(CallsOn(i)) = 1

C14_Witness ==
  /\ apc = "returned"
  /\ \E i, j \in DOMAIN AnnInput :
       /\ AnnInput[i].Binoculars_Score = Null
       /\ Cardinality(CallsOn(i)) = 1
       /\ AnnInput[j].Binoculars_Score = Missing
       /\ AnnInput[j].Abstract = "N/A"
       /\ CallsOn(j) = {}

\* C15: when the call has returned and no record was newly scored, it has
\* returned False, no path was opened for writing, and the files and the
\* directories are the ones there were at the start.
C15_NothingNewNoWrite ==
  (apc = "returned" /\ \A i \in DOMAIN AnnInput : ~NewlyScored(i)) =>
    /\ ret = "False"
    /\ written = {}
    /\ DOMAIN disk = {input_file}
    /\ dirs = Prefixes(input_file.dir)

C15_Witness ==
  /\ apc = "returned"
  /\ ret = "False"
  /\ disk[input_file].ok
  /\ Len(AnnInput) >= 2
  /\ \A i \in DOMAIN AnnInput : HasScore(AnnInput[i])
  /\ DOMAIN disk = {input_file}

\* C16: no step of process_file_streaming, in either script and whatever the
\* outcome, changes the content of the input file, and the input path is
\* never among the paths opened for writing.
C16_InputNeverWritten ==
  /\ [][disk'[input_file] = disk[input_file]]_vars
  /\ [](input_file \notin written /\ input_file \in DOMAIN disk)

C16_Witness ==
  /\ ret = "True"
  /\ variant = "patch"
  /\ written = {patched_filename(input_file)}
  /\ disk[patched_filename(input_file)].data # disk[input_file].data

\* C17: each prediction is 0 for a score at or above its threshold and 1
\* for a score below it; two scores on opposite sides of a threshold get
\* different predictions and two scores on the same side get the same.
C17_ThresholdSides ==
  /\ \A k \in DOMAIN processed_items :
       LET it == processed_items[k] IN
         /\ it.Accuracy_Prediction =
              (IF it.Binoculars_Score < BINOCULARS_ACCURACY_THRESHOLD THEN 1 ELSE 0)
         /\ it.FPR_Prediction =
              (IF it.Binoculars_Score < BINOCULARS_FPR_THRESHOLD THEN 1 ELSE 0)
  /\ \A j, k \in DOMAIN processed_items :
       LET s1 == processed_items[j].Binoculars_Score
           s2 == processed_items[k].Binoculars_Score
       IN /\ (s1 < BINOCULARS_ACCURACY_THRESHOLD) = (s2 < BINOCULARS_ACCURACY_THRESHOLD)
             <=> processed_items[j].Accuracy_Prediction
                   = processed_items[k].Accuracy_Prediction
          /\ (s1 < BINOCULARS_FPR_THRESHOLD) = (s2 < BINOCULARS_FPR_THRESHOLD)
             <=> processed_items[j].FPR_Prediction
                   = processed_items[k].FPR_Prediction

C17_Witness ==
  /\ apc = "threshold"
  /\ Len(processed_items) = 2
  /\ processed_items[1].Binoculars_Score = BINOCULARS_ACCURACY_THRESHOLD - 1
  /\ processed_items[2].Binoculars_Score = BINOCULARS_ACCURACY_THRESHOLD
  /\ processed_items[1].Accuracy_Prediction = 1
  /\ processed_items[2].Accuracy_Prediction = 0
  /\ processed_items[1].FPR_Prediction = 0

Changed == {i \in DOMAIN AnnInput : document[i] # AnnInput[i]}
Scored == {i \in DOMAIN AnnInput : NewlyScored(i)}
SameOrder ==
  /\ Len(document) = Len(AnnInput)
  /\ \A i \in DOMAIN AnnInput : SameOtherFields(i)
\* Every record has an identifier and no two records share one.
DistinctIds ==
  \A i, j \in DOMAIN AnnInput :
    /\ AnnInput[i].Scopus_ID # NoId
    /\ i # j => AnnInput[i].Scopus_ID # AnnInput[j].Scopus_ID

\* C18: the merged document has the records of the input in the same
\* order, and as many records differ from the input as were newly scored.
C18_ChangedCountIsScoredCount ==
  Merged => SameOrder /\ Cardinality(Changed) = Cardinality(Scored)

\* C18, amended: the merged document has the records of the input in the
\* same order; a record differs from the input only if its identifier is a
\* key of the lookup; and when every record has an identifier and no two
\* share one, the records that differ are exactly the newly scored ones.
C18_ChangedAreScoredForDistinctIds ==
  Merged =>
    /\ SameOrder
    /\ \A i \in Changed : AnnInput[i].Scopus_ID \in LookupIds
    /\ DistinctIds => Changed = Scored

C18_Witness ==
  /\ ret = "True"
  /\ Len(AnnInput) = 2
  /\ DistinctIds
  /\ HasScore(AnnInput[1])
  /\ Scored = {2}
  /\ Changed = {2}

\* C19: a compute_score call that raises records no item, leaves the loop
\* running at the next record, and at the end of the call every record has
\* been yielded, every record after the one that raised was scored under
\* the skip rule, and there is one item for each call that did not raise.
C19_RaiseSkipsOneRecord ==
  /\ [][(Len(calls') = Len(calls) + 1 /\ calls'[Len(calls')].raised) =>
          /\ processed_items' = processed_items
          /\ apc' = "read"
          /\ ret' = "None"
          /\ ri' = ri + 1]_vars
  /\ [](apc \in {"write", "returned"} =>
          /\ ri = Len(AnnInput)
          /\ Len(processed_items) =
               Cardinality({k \in DOMAIN calls : ~calls[k].raised})
          /\ \A k \in DOMAIN calls :
               calls[k].raised =>
                 \A j \in DOMAIN AnnInput :
                   (j > calls[k].i /\ ~HasScore(AnnInput[j]) /\ HasText(AnnInput[j]))
                     => Cardinality(CallsOn(j)) = 1)

C19_Witness ==
  /\ ret = "True"
  /\ Len(calls) = 2
  /\ calls[1].raised
  /\ calls[1].i = 1
  /\ ~calls[2].raised
  /\ calls[2].i = 2
  /\ Len(processed_items) = 1

\* C20: whenever process_file_streaming has returned True, in either
\* script, the directory of output_file exists and the file at output_file
\* is the complete merged document.
C20_TrueMeansStoredAtOutput ==
  ret = "True" =>
    /\ output_file.dir \in dirs
    /\ output_file \in DOMAIN disk
    /\ disk[output_file] = [ok |-> TRUE, data |-> document]


\* C21: the annotator's write is atomic: no step of a run, a failing or an
\* interrupted write included, leaves at a path anything but what was there
\* before the step or the complete merged document.
C21_WriteIsAtomic ==
  [][\A p \in DOMAIN disk' :
       \/ p \in DOMAIN disk /\ disk'[p] = disk[p]
       \/ disk'[p] = [ok |-> TRUE, data |-> document]]_vars

\* The targets of the loop, by position, and the path the script writes for
\* the i-th of them.
Targets == 1..Len(target_files(variant))
WrittenPathOf(i) ==
  WrittenPath(variant, InputPathOf(variant, target_files(variant)[i]),
              OutputPathOf(variant, target_files(variant)[i]))

\* C22: when analyze_abstracts has gone through its list, every target was
\* taken once, in list order, whatever the earlier targets came to (input
\* missing, nothing scored, exception caught); every call of
\* process_file_streaming returned True or False; and the count is the
\* number of targets whose call returned True, which are the targets for
\* which a complete annotated document was written.
C22_EveryTargetTakenAndCounted ==
  /\ apc = "returned" => ret \in {"True", "False"}
  /\ \A i \in 1..Len(attempts) :
       /\ attempts[i].target = i
       /\ attempts[i].outcome \in {"missing", "True", "False"}
  /\ apc = "done" =>
       /\ Len(attempts) = Len(target_files(variant))
       /\ success_count =
            Cardinality({i \in Targets : attempts[i].outcome = "True"})
       /\ \A i \in Targets :
            attempts[i].outcome = "True" <=>
              /\ WrittenPathOf(i) \in written
              /\ disk[WrittenPathOf(i)].ok

\* The first target's call returned False, the second one's True.
C22_Witness ==
  /\ apc = "done"
  /\ attempts[1].outcome = "False"
  /\ attempts[2].outcome = "True"
  /\ success_count = 1


\* C23: checkpoints are immutable: a checkpoint file that has been written
\* for a bucket and a count stays in place with the same content in every
\* later step, of this run or of a later one, and of two checkpoints of a
\* bucket the one with the lower count holds a prefix of the other's
\* records.
C23_CheckpointsImmutable ==
  [][\A b \in Buckets :
       /\ \A c \in DOMAIN ckpt[b] :
            ckpt[b][c].ok => c \in DOMAIN ckpt'[b] /\ ckpt'[b][c] = ckpt[b][c]
       /\ \A c1, c2 \in DOMAIN ckpt'[b] :
            (c1 < c2 /\ ckpt'[b][c1].ok /\ ckpt'[b][c2].ok) =>
              IsPrefix(ckpt'[b][c1].data, ckpt'[b][c2].data)]_vars


\* The record the step has appended to the bucket's list.
Appended == monthly_articles'[Len(monthly_articles')]

\* C24: for every record an entry step appends, fetch_citations was called
\* in that step if and only if the record's Cited_By_Count is positive, the
\* record has a Citations list, and the list is empty when the call was not
\* made.
C24_CitationsIffCited ==
  [][(step' \in {"Entry", "PatchEntry"}
        /\ Len(monthly_articles') = Len(monthly_articles) + 1) =>
       /\ "Citations" \in DOMAIN Appended
       /\ lastCited' <=> Appended.Cited_By_Count > 0
       /\ ~lastCited' => Appended.Citations = <<>>]_vars


\* The script is inside the page loop of a bucket.
InPageLoop == pc \in {"page", "entry", "backup"}

\* C25: whatever the upstream answers, a script that is inside the page
\* loop of a bucket eventually leaves it.
C25_PageLoopEnds == InPageLoop ~> ~InPageLoop


\* C26: the credential pointer is a valid index into the pool in use, in
\* every state and so at every request, after any rotations and any reload
\* at the end of a pause, a reload that installs a pool of another size
\* included.
C26_PointerValid ==
  /\ 0 <= current_api_key_index
  /\ current_api_key_index < API_KEYS

\* The reload has just installed a pool of another size and the next page
\* request is about to be made.
C26_Witness ==
  /\ pc = "resumed_page"
  /\ lastResp = "resized"
  /\ API_KEYS = MaxKeys


\* C27: a bucket's record list, and with it the final output file of the
\* bucket, never holds more records than the offset limit, whatever
\* checkpoint the bucket was resumed from.
C27_AtMostLimitRecords ==
  /\ Len(monthly_articles) <= OFFSET_LIMIT
  /\ \A b \in DOMAIN final : Len(final[b].data) <= OFFSET_LIMIT


\* The second call is the one whose input is a file the first has written;
\* the first call's input is still in place (C16).
SecondRun == input_file \in written
FirstInput == disk[InputPath(variant)].data
FirstRunCallFailed ==
  \E i \in DOMAIN FirstInput :
    /\ ~AlreadyScored(FirstInput[i])
    /\ ~NoAbstract(AbstractOf(FirstInput[i]))
    /\ compute_score(AbstractOf(FirstInput[i])).raised

\* C28: the written document is a fixed point: a second call on the output
\* of a successful call in which no scoring failed makes no scoring call,
\* returns False and writes nothing, for every input array, arrays with
\* records that have no identifier included.
C28_OutputIsFixedPoint ==
  (SecondRun /\ ~FirstRunCallFailed) =>
    /\ calls = <<>>
    /\ apc = "returned" => ret = "False"
    /\ written = {input_file}


\* C29: when fetch_metadata has obtained an abstract other than "N/A" for
\* an entry, the record appended for the entry carries an Abstract other
\* than "N/A", whatever the attempts of fetch_abstract came to.
C29_MetadataAbstractKept ==
  [][(step' = "Entry" /\ lastMeta' = "ok"
        /\ UpstreamDescription(entries[ei]) # "N/A") =>
       Appended.Abstract # "N/A"]_vars


\* C30: in every annotation the read phase computes, FPR_Prediction = 1
\* implies Accuracy_Prediction = 1: the pair Accuracy_Prediction = 0,
\* FPR_Prediction = 1 never appears.
C30_FprImpliesAccuracy ==
  \A k \in DOMAIN processed_items :
    /\ processed_items[k].FPR_Prediction = 1 =>
         processed_items[k].Accuracy_Prediction = 1
    /\ ~(processed_items[k].Accuracy_Prediction = 0
           /\ processed_items[k].FPR_Prediction = 1)

\* A score just below the lower threshold is labelled 1 by both, the
\* threshold itself by the accuracy threshold alone.
C30_Witness ==
  /\ apc = "threshold"
  /\ Len(processed_items) = 2
  /\ processed_items[1].Binoculars_Score = BINOCULARS_FPR_THRESHOLD - 1
  /\ processed_items[1].FPR_Prediction = 1
  /\ processed_items[1].Accuracy_Prediction = 1
  /\ processed_items[2].Binoculars_Score = BINOCULARS_FPR_THRESHOLD
  /\ processed_items[2].FPR_Prediction = 0
  /\ processed_items[2].Accuracy_Prediction = 1

====
